---- MODULE Spec2Model ----
(***************************************************************************)
(* CBL_Edition.h (libcblite 3.0.1): the edition flag and the version,      *)
(* build and source identifiers of Couchbase Lite, as the C preprocessor   *)
(* sees them.  The model is a translation unit: the build system may       *)
(* predefine COUCHBASE_ENTERPRISE, the unit includes the header one or     *)
(* more times (the header has no include guard), the preprocessor handles  *)
(* the header line by line, and code after an inclusion uses the macros.   *)
(***************************************************************************)
EXTENDS Integers, Sequences, FiniteSets, TLC

\* Bounds of the model.
MaxIncludes == 2    \* inclusions of the header in one translation unit
NReaders    == 2    \* concurrent readers of the metadata
MaxMajor    == 1    \* major versions 0..MaxMajor are compared
MaxLow      == 1    \* minor/patch values 0..MaxLow ...
MaxOver     == 1    \* ... and Radix-1 .. Radix+MaxOver are compared

VARIABLES
    pc,         \* "tu": in the translation unit; "hdr": inside the header
    line,       \* the header line the preprocessor is at
    skipping,   \* inside a conditional group whose condition was false
    macros,     \* the macro table: name -> [defined, body]
    predef,     \* what the build system gave COUCHBASE_ENTERPRISE (history)
    ndefs,      \* name -> number of definitions that took effect (history)
    diag,       \* names redefined with a different replacement list
    included,   \* completed inclusions of the header
    afterFirst, \* the macro table at the end of the first inclusion (history)
    obs,        \* <<field, value>> pairs that readers have obtained (history)
    last,       \* reader -> the last <<field, value>> it obtained
    stage,      \* the version comparison: "start", "input", "encoded", "decoded"
    va, vb,     \* two versions <<major, minor, patch>>
    na, nb,     \* their version numbers
    da          \* na decoded

ppVars  == <<pc, line, skipping, macros, predef, ndefs, diag, included, afterFirst>>
rdVars  == <<obs, last>>
encVars == <<stage, va, vb, na, nb, da>>
vars    == <<pc, line, skipping, macros, predef, ndefs, diag, included, afterFirst,
             obs, last, stage, va, vb, na, nb, da>>

----------------------------------------------------------------------------
\* Preprocessing tokens.  A token keeps its spelling, character by character.

Str(chars)   == [kind |-> "str",   text |-> chars]
Num(chars)   == [kind |-> "num",   text |-> chars]
Punct(chars) == [kind |-> "punct", text |-> chars]
Id(name)     == [kind |-> "id",    text |-> <<name>>]

COUCHBASE_ENTERPRISE  == "COUCHBASE_ENTERPRISE"
CBLITE_VERSION        == "CBLITE_VERSION"
CBLITE_VERSION_NUMBER == "CBLITE_VERSION_NUMBER"
CBLITE_BUILD_NUMBER   == "CBLITE_BUILD_NUMBER"
CBLITE_SOURCE_ID      == "CBLITE_SOURCE_ID"

Names == {COUCHBASE_ENTERPRISE, CBLITE_VERSION, CBLITE_VERSION_NUMBER,
          CBLITE_BUILD_NUMBER, CBLITE_SOURCE_ID}

----------------------------------------------------------------------------
\* The header, line by line.

FirstLine == 19
LastLine  == 26

Directive(d, n, b) == [dir |-> d, name |-> n, body |-> b]

\* #ifdef COUCHBASE_ENTERPRISE: the sense of the test inverted.
Line19_Ifdef == Directive("ifdef", COUCHBASE_ENTERPRISE, <<>>)

\* #ifdef CBLITE_VERSION: the test inverted and on a name the header defines later.
Line19_IfdefVersion == Directive("ifdef", CBLITE_VERSION, <<>>)

\* #ifndef COUCHBASE_ENTERPRISE
Line19 == Directive("ifndef", COUCHBASE_ENTERPRISE, <<>>)

\* #define COUCHBASE_ENTERPRISE
Line20 == Directive("define", COUCHBASE_ENTERPRISE, <<>>)

\* #endif
Line21 == Directive("endif", "", <<>>)

Line22 == Directive("blank", "", <<>>)

\* #define CBLITE_VERSION "3.0": a two-part version string.
Line23_TwoPart == Directive("define", CBLITE_VERSION, <<Str(<<"3", ".", "0">>)>>)

\* #define CBLITE_VERSION CBLITE_SOURCE_ID: the version taken from the source id.
Line23_FromSourceID == Directive("define", CBLITE_VERSION, <<Id(CBLITE_SOURCE_ID)>>)

\* #define CBLITE_VERSION "3.0.1"
Line23 == Directive("define", CBLITE_VERSION, <<Str(<<"3", ".", "0", ".", "1">>)>>)

\* #define CBLITE_VERSION_NUMBER 3000000: the number of 3.0.0, not bumped with the string.
Line24_Stale ==
    Directive("define", CBLITE_VERSION_NUMBER, <<Num(<<"3", "0", "0", "0", "0", "0", "0">>)>>)

\* #define CBLITE_BUILD_NUMBER 3000001: line 24 defining the name of line 25.
Line24_WrongName ==
    Directive("define", CBLITE_BUILD_NUMBER, <<Num(<<"3", "0", "0", "0", "0", "0", "1">>)>>)

\* #define CBLITE_VERSION_NUMBER 3000001
Line24 ==
    Directive("define", CBLITE_VERSION_NUMBER, <<Num(<<"3", "0", "0", "0", "0", "0", "1">>)>>)

\* #define CBLITE_BUILD_NUMBER -1: a build counter that was never set.
Line25_Negative == Directive("define", CBLITE_BUILD_NUMBER, <<Punct(<<"-">>), Num(<<"1">>)>>)

\* #define CBLITE_BUILD_NUMBER 7
Line25 == Directive("define", CBLITE_BUILD_NUMBER, <<Num(<<"7">>)>>)

\* #define CBLITE_SOURCE_ID "2022-03-10T16:25:06 988a7ec+3da8078"
Line26 ==
    Directive("define", CBLITE_SOURCE_ID,
        <<Str(<<"2", "0", "2", "2", "-", "0", "3", "-", "1", "0", "T",
                "1", "6", ":", "2", "5", ":", "0", "6", " ",
                "9", "8", "8", "a", "7", "e", "c", "+",
                "3", "d", "a", "8", "0", "7", "8">>)>>)

Header ==
    [n \in FirstLine..LastLine |->
        CASE n = 19 -> Line19
          [] n = 20 -> Line20
          [] n = 21 -> Line21
          [] n = 22 -> Line22
          [] n = 23 -> Line23
          [] n = 24 -> Line24
          [] n = 25 -> Line25
          [] n = 26 -> Line26]

----------------------------------------------------------------------------
\* The macro table.

Undefined   == [defined |-> FALSE, body |-> <<>>]
Defined(b)  == [defined |-> TRUE, body |-> b]

\* What the build system may have given COUCHBASE_ENTERPRISE on the command
\* line: nothing, -DCOUCHBASE_ENTERPRISE= (empty), -DCOUCHBASE_ENTERPRISE (1),
\* -DCOUCHBASE_ENTERPRISE=0.
PreDefs == {Undefined, Defined(<<>>), Defined(<<Num(<<"1">>)>>), Defined(<<Num(<<"0">>)>>)}

\* #ifndef NAME / #ifdef NAME: is the group that follows processed?
GroupTaken(d, m) ==
    IF d.dir = "ifndef" THEN ~m[d.name].defined ELSE m[d.name].defined

\* #define NAME body: the new definition takes effect (an identical
\* redefinition is allowed; a different one is diagnosed and replaces the old).
DefineMacro(m, name, body) == [m EXCEPT ![name] = Defined(body)]

\* Expansion of a token sequence, rescanning the replacement lists; a name
\* is not expanded again inside its own expansion.
RECURSIVE ExpandToks(_, _, _)
ExpandToks(toks, m, hide) ==
    IF toks = <<>> THEN <<>>
    ELSE LET t == Head(toks)
             n == t.text[1]
         IN  IF t.kind = "id" /\ n \in Names /\ n \notin hide /\ m[n].defined
             THEN ExpandToks(m[n].body, m, hide \cup {n}) \o ExpandToks(Tail(toks), m, hide)
             ELSE <<t>> \o ExpandToks(Tail(toks), m, hide)

\* What a use of NAME in the translation unit expands to.
Expand(name, m) == ExpandToks(<<Id(name)>>, m, {})

----------------------------------------------------------------------------
\* The metadata record read through the macros.

Fields == {"EditionFlag", "VersionString", "VersionNumber", "BuildNumber", "SourceID"}

FieldMacro(f) ==
    CASE f = "EditionFlag"   -> COUCHBASE_ENTERPRISE
      [] f = "VersionString" -> CBLITE_VERSION
      [] f = "VersionNumber" -> CBLITE_VERSION_NUMBER
      [] f = "BuildNumber"   -> CBLITE_BUILD_NUMBER
      [] f = "SourceID"      -> CBLITE_SOURCE_ID

\* The edition flag is a presence marker, read with #ifdef; the other fields
\* are read by using the macro, which resolves when the macro is defined.
ReadValue(f, m) ==
    IF f = "EditionFlag"
    THEN [ok |-> TRUE, flag |-> m[COUCHBASE_ENTERPRISE].defined, toks |-> <<>>]
    ELSE [ok |-> m[FieldMacro(f)].defined, flag |-> FALSE, toks |-> Expand(FieldMacro(f), m)]

NoRead == [f |-> "none", v |-> [ok |-> FALSE, flag |-> FALSE, toks |-> <<>>]]

Readers == 1..NReaders

----------------------------------------------------------------------------
\* Text and numbers.

Digits == {"0", "1", "2", "3", "4", "5", "6", "7", "8", "9"}

DigitValue(c) ==
    CASE c = "0" -> 0 [] c = "1" -> 1 [] c = "2" -> 2 [] c = "3" -> 3 [] c = "4" -> 4
      [] c = "5" -> 5 [] c = "6" -> 6 [] c = "7" -> 7 [] c = "8" -> 8 [] c = "9" -> 9

AllDigits(s) == \A i \in 1..Len(s) : s[i] \in Digits

\* The value of a run of decimal digits.
RECURSIVE DecimalValue(_)
DecimalValue(s) ==
    IF s = <<>> THEN 0
    ELSE DecimalValue(SubSeq(s, 1, Len(s) - 1)) * 10 + DigitValue(s[Len(s)])

\* The runs between the '.' characters of a text.
RECURSIVE SplitDots(_)
SplitDots(s) ==
    IF \A i \in 1..Len(s) : s[i] # "."
    THEN <<s>>
    ELSE LET i == CHOOSE k \in 1..Len(s) : s[k] = "." /\ \A j \in 1..(k - 1) : s[j] # "."
         IN  <<SubSeq(s, 1, i - 1)>> \o SplitDots(SubSeq(s, i + 1, Len(s)))

\* ^\d+\.\d+\.\d+$
MatchesVersionPattern(s) ==
    LET runs == SplitDots(s)
    IN  /\ Len(runs) = 3
        /\ \A i \in 1..3 : runs[i] # <<>> /\ AllDigits(runs[i])

\* The three integers of a dotted version text.
ParseVersion(s) ==
    LET runs == SplitDots(s)
    IN  <<DecimalValue(runs[1]), DecimalValue(runs[2]), DecimalValue(runs[3])>>

\* An expansion that is one string literal, and its characters.
IsStringLiteral(toks) == Len(toks) = 1 /\ toks[1].kind = "str"
StringChars(toks) == toks[1].text

\* An expansion that is a decimal integer, with an optional sign, and its value.
IsIntLiteral(toks) ==
    \/ Len(toks) = 1 /\ toks[1].kind = "num" /\ toks[1].text # <<>> /\ AllDigits(toks[1].text)
    \/ /\ Len(toks) = 2 /\ toks[1] = Punct(<<"-">>)
       /\ toks[2].kind = "num" /\ toks[2].text # <<>> /\ AllDigits(toks[2].text)

IntValue(toks) ==
    IF Len(toks) = 1 THEN DecimalValue(toks[1].text) ELSE 0 - DecimalValue(toks[2].text)

----------------------------------------------------------------------------
\* The version number encoding.

Radix == 1000

Encode(v) == v[1] * Radix * Radix + v[2] * Radix + v[3]

Decode(n) == <<n \div (Radix * Radix), (n \div Radix) % Radix, n % Radix>>

\* Component by component: major first, then minor, then patch.
LexLess(a, b) ==
    \/ a[1] < b[1]
    \/ a[1] = b[1] /\ a[2] < b[2]
    \/ a[1] = b[1] /\ a[2] = b[2] /\ a[3] < b[3]

Components == (0..MaxLow) \cup ((Radix - 1)..(Radix + MaxOver))
Versions   == (0..MaxMajor) \X Components \X Components

InRange(v) == v[2] < Radix /\ v[3] < Radix

----------------------------------------------------------------------------
\* The translation unit.

PPInit ==
    /\ pc = "tu"
    /\ line = FirstLine
    /\ skipping = FALSE
    /\ predef \in PreDefs
    /\ macros = [n \in Names |-> IF n = COUCHBASE_ENTERPRISE THEN predef ELSE Undefined]
    /\ ndefs = [n \in Names |-> IF n = COUCHBASE_ENTERPRISE /\ predef.defined THEN 1 ELSE 0]
    /\ diag = {}
    /\ included = 0
    /\ afterFirst = [n \in Names |-> Undefined]
    /\ obs = {}
    /\ last = [r \in Readers |-> NoRead]

EncIdle ==
    /\ stage = "start"
    /\ va = <<0, 0, 0>> /\ vb = <<0, 0, 0>>
    /\ na = 0 /\ nb = 0
    /\ da = <<0, 0, 0>>

Init == PPInit /\ EncIdle

\* #include "CBL_Edition.h"
BeginInclude ==
    /\ pc = "tu"
    /\ included < MaxIncludes
    /\ pc' = "hdr"
    /\ line' = FirstLine
    /\ skipping' = FALSE
    /\ UNCHANGED <<macros, predef, ndefs, diag, included, afterFirst, rdVars, encVars>>

AtLine(kinds) == pc = "hdr" /\ line <= LastLine /\ Header[line].dir \in kinds

\* #ifndef / #ifdef (the header's one conditional is not nested)
DoIfdef ==
    /\ AtLine({"ifndef", "ifdef"})
    /\ skipping' = (skipping \/ ~GroupTaken(Header[line], macros))
    /\ line' = line + 1
    /\ UNCHANGED <<pc, macros, predef, ndefs, diag, included, afterFirst, rdVars, encVars>>

\* #define
DoDefine ==
    /\ AtLine({"define"})
    /\ LET d == Header[line]
       IN  IF skipping
           THEN UNCHANGED <<macros, ndefs, diag>>
           ELSE /\ macros' = DefineMacro(macros, d.name, d.body)
                /\ ndefs' = [ndefs EXCEPT ![d.name] = @ + 1]
                /\ diag' = IF macros[d.name].defined /\ macros[d.name].body # d.body
                           THEN diag \cup {d.name} ELSE diag
    /\ line' = line + 1
    /\ UNCHANGED <<pc, skipping, predef, included, afterFirst, rdVars, encVars>>

\* #endif
DoEndif ==
    /\ AtLine({"endif"})
    /\ skipping' = FALSE
    /\ line' = line + 1
    /\ UNCHANGED <<pc, macros, predef, ndefs, diag, included, afterFirst, rdVars, encVars>>

\* an empty line
DoBlank ==
    /\ AtLine({"blank"})
    /\ line' = line + 1
    /\ UNCHANGED <<pc, skipping, macros, predef, ndefs, diag, included, afterFirst, rdVars, encVars>>

\* the end of the header: back to the including file
EndInclude ==
    /\ pc = "hdr"
    /\ line = LastLine + 1
    /\ pc' = "tu"
    /\ included' = included + 1
    /\ afterFirst' = IF included = 0 THEN macros ELSE afterFirst
    /\ UNCHANGED <<line, skipping, macros, predef, ndefs, diag, rdVars, encVars>>

\* Code after an inclusion reads a field of the record.
ReadField(r, f) ==
    /\ pc = "tu"
    /\ included >= 1
    /\ obs' = obs \cup {<<f, ReadValue(f, macros)>>}
    /\ last' = [last EXCEPT ![r] = [f |-> f, v |-> ReadValue(f, macros)]]
    /\ UNCHANGED <<ppVars, encVars>>

Next ==
    \/ BeginInclude
    \/ DoIfdef
    \/ DoDefine
    \/ DoEndif
    \/ DoBlank
    \/ EndInclude
    \/ \E r \in Readers, f \in Fields : ReadField(r, f)

Spec == Init /\ [][Next]_vars

----------------------------------------------------------------------------
\* Version comparison by code that follows the inclusions.

\* Two versions to compare.
ChooseVersions(a, b) ==
    /\ va' = a
    /\ vb' = b
    /\ stage' = "input"
    /\ UNCHANGED <<ppVars, rdVars, na, nb, da>>

\* The comparison follows the first inclusion of the header.
PreCompare == stage = "start" /\ included = 0

CanCompare == stage = "start" /\ pc = "tu" /\ included >= 1

\* The header's version macros resolve to a dotted string and an integer.
VersionResolves(m) ==
    /\ IsStringLiteral(Expand(CBLITE_VERSION, m))
    /\ MatchesVersionPattern(StringChars(Expand(CBLITE_VERSION, m)))
    /\ IsIntLiteral(Expand(CBLITE_VERSION_NUMBER, m))

\* The version the header's string gives, and the number the header gives.
HeaderVersion(m) == ParseVersion(StringChars(Expand(CBLITE_VERSION, m)))
HeaderNumber(m)  == IntValue(Expand(CBLITE_VERSION_NUMBER, m))

\* The header's own version, read as text and as number, against a version b.
ReadHeaderVersion(b) ==
    /\ va' = HeaderVersion(macros)
    /\ na' = HeaderNumber(macros)
    /\ vb' = b
    /\ nb' = Encode(b)
    /\ stage' = "encoded"
    /\ UNCHANGED <<ppVars, rdVars, da>>

EncodeVersions ==
    /\ stage = "input"
    /\ na' = Encode(va)
    /\ nb' = Encode(vb)
    /\ stage' = "encoded"
    /\ UNCHANGED <<ppVars, rdVars, va, vb, da>>

DecodeNumber ==
    /\ stage = "encoded"
    /\ da' = Decode(na)
    /\ stage' = "decoded"
    /\ UNCHANGED <<ppVars, rdVars, va, vb, na, nb>>

EncNext ==
    \/ PreCompare /\ BeginInclude
    \/ PreCompare /\ DoIfdef
    \/ PreCompare /\ DoDefine
    \/ PreCompare /\ DoEndif
    \/ PreCompare /\ DoBlank
    \/ PreCompare /\ EndInclude
    \/ CanCompare /\ \E a \in Versions, b \in Versions : ChooseVersions(a, b)
    \/ /\ CanCompare /\ VersionResolves(macros)
       /\ \E b \in Versions \cup {HeaderVersion(macros)} : ReadHeaderVersion(b)
    \/ EncodeVersions
    \/ DecodeNumber

EncSpec == Init /\ [][EncNext]_vars

----------------------------------------------------------------------------
\* Properties.

\* The values readers have obtained for field f.
Seen(f) == {o[2] : o \in {x \in obs : x[1] = f}}

\* Replacement lists the source id could have had instead.
AltSourceIDs ==
    {<<>>, <<Str(<<>>)>>, <<Str(<<"9", ".", "9", ".", "9">>)>>, <<Num(<<"4", "2">>)>>,
     <<Punct(<<"-">>), Num(<<"1">>)>>, <<Id(CBLITE_VERSION)>>, <<Id(CBLITE_SOURCE_ID)>>}

\* C1: once the header is included, the integer CBLITE_VERSION_NUMBER expands
\* to equals major*1000000 + minor*1000 + patch of the three integers parsed
\* from the string CBLITE_VERSION expands to; these are 3.0.1 and 3000001.
C1_NumberEncodesString ==
    included >= 1 =>
        /\ VersionResolves(macros)
        /\ HeaderNumber(macros) = Encode(HeaderVersion(macros))
        /\ HeaderVersion(macros) = <<3, 0, 1>>
        /\ HeaderNumber(macros) = 3000001

C1_Witness ==
    /\ pc = "tu" /\ included >= 1
    /\ \E s \in Seen("VersionString"), n \in Seen("VersionNumber") :
          /\ IsStringLiteral(s.toks) /\ IsIntLiteral(n.toks)
          /\ IntValue(n.toks) = Encode(ParseVersion(StringChars(s.toks)))

\* C2 as stated: for any two versions of non-negative integers, the numbers
\* compare as the versions do component by component, and are equal only for
\* equal versions.
C2_OrderForAllVersions ==
    stage \in {"encoded", "decoded"} =>
        /\ (na < nb) <=> LexLess(va, vb)
        /\ (na = nb) <=> (va = vb)

\* C2 amended: the same, for versions whose minor and patch are below 1000.
C2_OrderWithinRadix ==
    (stage \in {"encoded", "decoded"} /\ InRange(va) /\ InRange(vb)) =>
        /\ (na < nb) <=> LexLess(va, vb)
        /\ (na = nb) <=> (va = vb)

C2_Witness ==
    /\ stage = "encoded" /\ InRange(va) /\ InRange(vb)
    /\ va[1] < vb[1] /\ va[2] = Radix - 1 /\ va[3] = Radix - 1 /\ vb[2] = 0 /\ vb[3] = 0
    /\ na < nb

\* C3: once the header is included, CBLITE_VERSION expands to one string
\* literal that is not empty and is exactly three non-empty runs of decimal
\* digits separated by two '.' characters.
C3_VersionStringFormat ==
    included >= 1 =>
        /\ macros[CBLITE_VERSION].defined
        /\ IsStringLiteral(Expand(CBLITE_VERSION, macros))
        /\ StringChars(Expand(CBLITE_VERSION, macros)) # <<>>
        /\ MatchesVersionPattern(StringChars(Expand(CBLITE_VERSION, macros)))

C3_Witness ==
    /\ pc = "tu" /\ included >= 1
    /\ \E s \in Seen("VersionString") :
          s.ok /\ IsStringLiteral(s.toks) /\ Len(SplitDots(StringChars(s.toks))) = 3

\* C4: once the header is included, COUCHBASE_ENTERPRISE is defined whether
\* or not the build system had defined it, and every read of the edition
\* flag resolves and reports the enterprise tier.
C4_EditionAlwaysDefined ==
    included >= 1 =>
        /\ macros[COUCHBASE_ENTERPRISE].defined
        /\ ReadValue("EditionFlag", macros).ok
        /\ ReadValue("EditionFlag", macros).flag
        /\ \A v \in Seen("EditionFlag") : v.ok /\ v.flag

C4_Witness ==
    /\ ~predef.defined
    /\ pc = "tu" /\ included >= 1
    /\ \E v \in Seen("EditionFlag") : v.flag

\* C5: from the end of the first inclusion on, every field has the value it
\* had then, every value any reader obtained is that value (so two reads of a
\* field agree), and each reader's last result is the field's current value.
C5_RecordImmutable ==
    included >= 1 =>
        /\ \A f \in Fields : ReadValue(f, macros) = ReadValue(f, afterFirst)
        /\ \A o \in obs : o[2] = ReadValue(o[1], afterFirst)
        /\ \A f \in Fields : Cardinality(Seen(f)) <= 1
        /\ \A r \in Readers : last[r] # NoRead => last[r].v = ReadValue(last[r].f, macros)

C5_Witness ==
    /\ pc = "tu" /\ included >= 2
    /\ \A f \in Fields : Seen(f) # {}
    /\ \A r \in Readers : last[r] # NoRead
    /\ \E r1 \in Readers, r2 \in Readers : r1 # r2 /\ last[r1].f = last[r2].f

\* C6: once the header is included, CBLITE_BUILD_NUMBER expands to an
\* integer that is greater than or equal to 0.
C6_BuildNumberNonNegative ==
    included >= 1 =>
        /\ macros[CBLITE_BUILD_NUMBER].defined
        /\ IsIntLiteral(Expand(CBLITE_BUILD_NUMBER, macros))
        /\ IntValue(Expand(CBLITE_BUILD_NUMBER, macros)) >= 0

C6_Witness ==
    /\ pc = "tu" /\ included >= 1
    /\ \E v \in Seen("BuildNumber") : v.ok /\ IsIntLiteral(v.toks) /\ IntValue(v.toks) = 7

\* C7: once the header is included, a macro table that differs from the
\* actual one only in CBLITE_SOURCE_ID (another replacement list, or none)
\* gives the same result for every read other than the read of SourceID.
C7_SourceIDOpaque ==
    included >= 1 =>
        \A f \in Fields \ {"SourceID"} :
            /\ \A s \in AltSourceIDs :
                  ReadValue(f, DefineMacro(macros, CBLITE_SOURCE_ID, s)) = ReadValue(f, macros)
            /\ ReadValue(f, [macros EXCEPT ![CBLITE_SOURCE_ID] = Undefined]) = ReadValue(f, macros)

C7_Witness ==
    /\ pc = "tu" /\ included >= 1
    /\ \E v \in Seen("SourceID") : v.ok /\ IsStringLiteral(v.toks)
    /\ \A f \in Fields \ {"SourceID"} : Seen(f) # {}
    /\ \E s \in AltSourceIDs :
          ReadValue("SourceID", DefineMacro(macros, CBLITE_SOURCE_ID, s))
              # ReadValue("SourceID", macros)

\* C8: if the build system defined COUCHBASE_ENTERPRISE, it keeps that
\* definition through every inclusion and no further definition of it takes
\* effect; if not, the header defines it, empty, exactly once.
C8_DefinedOnlyIfAbsent ==
    /\ predef.defined =>
          /\ macros[COUCHBASE_ENTERPRISE] = predef
          /\ ndefs[COUCHBASE_ENTERPRISE] = 1
          /\ COUCHBASE_ENTERPRISE \notin diag
    /\ (~predef.defined /\ included >= 1) =>
          /\ macros[COUCHBASE_ENTERPRISE] = Defined(<<>>)
          /\ ndefs[COUCHBASE_ENTERPRISE] = 1

C8_Witness ==
    /\ predef.defined /\ predef.body # <<>>
    /\ pc = "tu" /\ included >= 2
    /\ macros[COUCHBASE_ENTERPRISE] = predef

\* C9: a version number decoded as n div 1000000, (n div 1000) mod 1000,
\* n mod 1000 gives back the version it belongs to, for the header's number
\* and string (3000001 and 3.0.1) and for the encoding of every version whose
\* minor and patch are in 0..999.
C9_DecodeRoundTrip ==
    (stage = "decoded" /\ InRange(va)) =>
        /\ da = va
        /\ na = 3000001 => da = <<3, 0, 1>>

C9_Witness ==
    /\ stage = "decoded"
    /\ na = HeaderNumber(macros) /\ va = HeaderVersion(macros)
    /\ da = <<3, 0, 1>>

\* C10: from the end of the first inclusion on, through every line of every
\* later inclusion, the macro table is the one the first inclusion left, no
\* redefinition differs from the definition in force, and yet the header's
\* definitions are processed again at each inclusion (there is no guard).
C10_InclusionIdempotent ==
    included >= 1 =>
        /\ macros = afterFirst
        /\ diag = {}
        /\ pc = "tu" => ndefs[CBLITE_VERSION] = included

C10_Witness ==
    /\ pc = "tu" /\ included >= 2
    /\ ndefs[CBLITE_SOURCE_ID] >= 2
    /\ macros = afterFirst

====
